---------------------------- MODULE Spec2Model ----------------------------
(***************************************************************************)
(* Model of ext/date/lib/interval.c (timelib, PHP 8.3.0): the difference    *)
(* of two instants (timelib_diff, timelib_diff_days) and the application   *)
(* of an interval to an instant (timelib_add, timelib_sub,                 *)
(* timelib_add_wall, timelib_sub_wall, do_range_limit).                    *)
(*                                                                         *)
(* The functions of interval.c are operators translated line by line.      *)
(* The collaborators that live in other files of timelib (the calendar     *)
(* conversions, the normalisers, the zone lookups) are modelled from       *)
(* their contracts.                                                        *)
(***************************************************************************)
EXTENDS Integers, Sequences, FiniteSets, TLC

(***************************************************************************)
(* C integer arithmetic: / truncates towards zero, % has the sign of the   *)
(* dividend.  (TLA+'s \div and % are the floor versions.)                  *)
(***************************************************************************)
CDiv(a, b) == IF a >= 0 THEN a \div b ELSE -((-a) \div b)

CMod(a, b) == a - b * CDiv(a, b)

llabs(a) == IF a < 0 THEN -a ELSE a

\* C evaluates the argument of a call once, before the call.  Where a
\* call's argument is itself a call, the model binds the argument's value
\* first: CHOOSE r \in {F(x) : x \in {v}} : TRUE is F(v) with v evaluated
\* once.

SECS_PER_DAY == 86400

SECS_PER_HOUR == 3600

USECS_PER_SEC == 1000000

TIMELIB_ZONETYPE_OFFSET == 1

TIMELIB_ZONETYPE_ABBR == 2

TIMELIB_ZONETYPE_ID == 3

TIMELIB_UNSET == -9999999

(***************************************************************************)
(* The zone database.  A named zone is a table of transitions, oldest      *)
(* first, and the type in force before the first of them.  The two zones   *)
(* carry the 2023 rules of a zone west of UTC and of one east of it.       *)
(***************************************************************************)
NY == "America/New_York"

AMS == "Europe/Amsterdam"

NYSpring == 1678604400

NYFall == 1699164000

AMSSpring == 1679792400

AMSFall == 1698541200

ZoneNames == {NY, AMS}

ZoneInitial(name) ==
    IF name = NY THEN [offset |-> -18000, isdst |-> 0]
                 ELSE [offset |-> 3600, isdst |-> 0]

ZoneTable(name) ==
    IF name = NY
    THEN << [at |-> NYSpring, offset |-> -14400, isdst |-> 1],
            [at |-> NYFall,   offset |-> -18000, isdst |-> 0] >>
    ELSE << [at |-> AMSSpring, offset |-> 7200, isdst |-> 1],
            [at |-> AMSFall,   offset |-> 3600, isdst |-> 0] >>

\* The index of the last transition at or before ts, 0 when ts predates all.
TransitionIndex(ts, name) ==
    LET tab == ZoneTable(name)
        hit == {k \in 1..Len(tab) : tab[k].at <= ts}
    IN  IF hit = {} THEN 0 ELSE CHOOSE k \in hit : \A j \in hit : j <= k

\* offset_lookup of the spec: "not found" when ts predates every transition.
timelib_get_time_zone_offset_info(ts, name) ==
    LET k == TransitionIndex(ts, name)
    IN  IF name = "" \/ k = 0
        THEN [success |-> FALSE, offset |-> 0, transition_time |-> 0, is_dst |-> 0]
        ELSE [success |-> TRUE,
              offset |-> ZoneTable(name)[k].offset,
              transition_time |-> ZoneTable(name)[k].at,
              is_dst |-> ZoneTable(name)[k].isdst]

\* The offset and DST flag in force at ts: the invariant of a named-zone
\* instant ("z/dst reflect the offset/DST state at sse").
timelib_get_time_zone_info(ts, name) ==
    LET k == TransitionIndex(ts, name)
    IN  IF k = 0
        THEN [offset |-> ZoneInitial(name).offset, is_dst |-> ZoneInitial(name).isdst]
        ELSE [offset |-> ZoneTable(name)[k].offset, is_dst |-> ZoneTable(name)[k].isdst]

(***************************************************************************)
(* The calendar (proleptic Gregorian), in the day-number form timelib      *)
(* uses.                                                                    *)
(***************************************************************************)
timelib_is_leap(y) == (y % 4 = 0) /\ ((y % 100 # 0) \/ (y % 400 = 0))

timelib_days_in_month(y, m) ==
    IF m = 2 THEN (IF timelib_is_leap(y) THEN 29 ELSE 28)
    ELSE IF m \in {4, 6, 9, 11} THEN 30 ELSE 31

\* Days since 1970-01-01 of the date y-m-d (m in 1..12; d may overflow).
EpochDays(y0, m, d) ==
    LET y    == IF m <= 2 THEN y0 - 1 ELSE y0
        era  == y \div 400
        yoe  == y - era * 400
        doy  == (153 * (m + (IF m > 2 THEN -3 ELSE 9)) + 2) \div 5 + d - 1
        doe  == yoe * 365 + yoe \div 4 - yoe \div 100 + doy
    IN  era * 146097 + doe - 719468

timelib_epoch_days_from_time(t) == EpochDays(t.y, t.m, t.d)

\* The date of a day number.
DateOfDays(days) ==
    LET zz  == days + 719468
        era == zz \div 146097
        doe == zz - era * 146097
        yoe == (doe - doe \div 1460 + doe \div 36524 - doe \div 146096) \div 365
        doy == doe - (365 * yoe + yoe \div 4 - yoe \div 100)
        mp  == (5 * doy + 2) \div 153
        d   == doy - (153 * mp + 2) \div 5 + 1
        m   == IF mp < 10 THEN mp + 3 ELSE mp - 9
        y   == yoe + era * 400 + (IF m <= 2 THEN 1 ELSE 0)
    IN  [y |-> y, m |-> m, d |-> d]

timelib_hms_to_seconds(h, i, s) == h * 3600 + i * 60 + s

\* The calendar fields of a local second count.
timelib_unixtime2gmt(ts) ==
    LET days == ts \div SECS_PER_DAY
        rem  == ts % SECS_PER_DAY
        date == DateOfDays(days)
    IN  [y |-> date.y, m |-> date.m, d |-> date.d,
         h |-> rem \div 3600, i |-> (rem % 3600) \div 60, s |-> rem % 60]

(***************************************************************************)
(* calendar_from_epoch: re-derives the calendar fields (and, for a named   *)
(* zone, z and dst) from sse.  The microsecond is kept.                    *)
(***************************************************************************)
timelib_update_from_sse(t) ==
    LET info  == timelib_get_time_zone_info(t.sse, t.tz_name)
        z     == IF t.zone_type = TIMELIB_ZONETYPE_ID THEN info.offset ELSE t.z
        dst   == IF t.zone_type = TIMELIB_ZONETYPE_ID THEN info.is_dst ELSE t.dst
        local == IF t.zone_type = TIMELIB_ZONETYPE_ID
                 THEN t.sse + z
                 ELSE t.sse + z + dst * 3600
        f     == timelib_unixtime2gmt(local)
    IN  [t EXCEPT !.y = f.y, !.m = f.m, !.d = f.d, !.h = f.h, !.i = f.i,
                  !.s = f.s, !.z = z, !.dst = dst]

\* timelib_set_timezone: re-apply the named zone at the instant's sse.
timelib_set_timezone(t) ==
    LET info == timelib_get_time_zone_info(t.sse, t.tz_name)
    IN  [t EXCEPT !.z = info.offset, !.dst = info.is_dst,
                  !.zone_type = TIMELIB_ZONETYPE_ID]

\* A consistent instant of a zone: what parsing or setTimestamp produces.
Blank(zone) ==
    [y |-> 1970, m |-> 1, d |-> 1, h |-> 0, i |-> 0, s |-> 0, us |-> 0,
     sse |-> 0, z |-> zone.z, dst |-> zone.dst,
     zone_type |-> zone.zone_type, tz_name |-> zone.tz_name]

MkTime(zone, sse, us) ==
    timelib_update_from_sse([Blank(zone) EXCEPT !.sse = sse, !.us = us])

(***************************************************************************)
(* normalize_fields: carry of over- and underflowed fields into the next   *)
(* unit, "in strict priority order".                                       *)
(***************************************************************************)
\* One carry step: a into [start, start + adj), the whole units moved to b.
Carry(start, adj, a, b) ==
    LET k == (a - start) \div adj
    IN  [a |-> a - k * adj, b |-> b + k]

\* Negative days borrow whole months, walking from the base month: forwards
\* for a plain interval, backwards for an inverted one.
RECURSIVE do_range_limit_days_relative(_, _, _, _, _)
do_range_limit_days_relative(year, month, m, d, invert) ==
    IF d >= 0 THEN [m |-> m, d |-> d]
    ELSE LET days == timelib_days_in_month(year, month)
             nm   == IF invert = 0 THEN month + 1 ELSE month - 1
             ny   == IF nm > 12 THEN year + 1 ELSE IF nm < 1 THEN year - 1 ELSE year
             wm   == IF nm > 12 THEN nm - 12 ELSE IF nm < 1 THEN nm + 12 ELSE nm
         IN  do_range_limit_days_relative(ny, wm, m - 1, d + days, invert)

timelib_do_rel_normalize(base, rt) ==
    LET c1 == Carry(0, USECS_PER_SEC, rt.us, rt.s)
        c2 == Carry(0, 60, c1.b, rt.i)
        c3 == Carry(0, 60, c2.b, rt.h)
        c4 == Carry(0, 24, c3.b, rt.d)
        c5 == Carry(0, 12, rt.m, rt.y)
        bm == Carry(1, 12, base.m, base.y)
        dr == do_range_limit_days_relative(bm.b, bm.a, c5.a, c4.b, rt.invert)
        c6 == Carry(0, 12, dr.m, c5.b)
    IN  [rt EXCEPT !.us = c1.a, !.s = c2.a, !.i = c3.a, !.h = c4.a,
                   !.d = dr.d, !.m = c6.a, !.y = c6.b]

\* Days beyond the month's length move into the following months, days
\* below 1 borrow from the preceding ones.
RECURSIVE do_range_limit_days(_, _, _)
do_range_limit_days(y, m, d) ==
    IF d < 1
    THEN LET pm == IF m = 1 THEN 12 ELSE m - 1
             py == IF m = 1 THEN y - 1 ELSE y
         IN  do_range_limit_days(py, pm, d + timelib_days_in_month(py, pm))
    ELSE IF d > timelib_days_in_month(y, m)
    THEN LET nm == IF m = 12 THEN 1 ELSE m + 1
             ny == IF m = 12 THEN y + 1 ELSE y
         IN  do_range_limit_days(ny, nm, d - timelib_days_in_month(y, m))
    ELSE [y |-> y, m |-> m, d |-> d]

timelib_do_normalize(t) ==
    LET c1 == Carry(0, USECS_PER_SEC, t.us, t.s)
        c2 == Carry(0, 60, c1.b, t.i)
        c3 == Carry(0, 60, c2.b, t.h)
        c4 == Carry(0, 24, c3.b, t.d)
        c5 == Carry(1, 12, t.m, t.y)
        dd == do_range_limit_days(c5.b, c5.a, c4.b)
    IN  [t EXCEPT !.us = c1.a, !.s = c2.a, !.i = c3.a, !.h = c4.a,
                  !.d = dd.d, !.m = dd.m, !.y = dd.y]

(***************************************************************************)
(* Comparison helpers of timelib.                                           *)
(***************************************************************************)
timelib_time_compare(t1, t2) ==
    IF t1.sse = t2.sse
    THEN (IF t1.us = t2.us THEN 0 ELSE IF t1.us < t2.us THEN -1 ELSE 1)
    ELSE IF t1.sse < t2.sse THEN -1 ELSE 1

timelib_same_timezone(one, two) ==
    IF one.zone_type # two.zone_type THEN FALSE
    ELSE IF one.zone_type \in {TIMELIB_ZONETYPE_ABBR, TIMELIB_ZONETYPE_OFFSET}
    THEN one.z + one.dst * 3600 = two.z + two.dst * 3600
    ELSE one.zone_type = TIMELIB_ZONETYPE_ID /\ one.tz_name = two.tz_name

\* The time of day as a decimal hour.  The double is h + i/60 + s/3600 +
\* us/3600000000; two times of day (h >= 0) compare as their exact values
\* do, so the value is kept as the pair (seconds, microseconds) and compared
\* by DecimalLess.
timelib_hmsf_to_decimal_hour(h, i, s, us) == << h * 3600 + i * 60 + s, us >>

DecimalLess(p, q) == p[1] < q[1] \/ (p[1] = q[1] /\ p[2] < q[2])

(***************************************************************************)
(* interval.c                                                               *)
(***************************************************************************)
timelib_rel_time_ctor ==
    [y |-> 0, m |-> 0, d |-> 0, h |-> 0, i |-> 0, s |-> 0, us |-> 0,
     invert |-> 0, days |-> 0,
     have_weekday_relative |-> 0, weekday |-> 0,
     have_special_relative |-> 0, special_type |-> 0, special_amount |-> 0]

\* Both instants carry the same named zone.
SameTzid(one, two) ==
    /\ one.zone_type = TIMELIB_ZONETYPE_ID
    /\ two.zone_type = TIMELIB_ZONETYPE_ID
    /\ one.tz_name = two.tz_name

\* The calendar-field comparison of sort_old_to_new: one is later than two.
FieldsLater(one, two) ==
    \/ one.y > two.y
    \/ one.y = two.y /\ one.m > two.m
    \/ one.y = two.y /\ one.m = two.m /\ one.d > two.d
    \/ one.y = two.y /\ one.m = two.m /\ one.d = two.d /\ one.h > two.h
    \/ one.y = two.y /\ one.m = two.m /\ one.d = two.d /\ one.h = two.h
       /\ one.i > two.i
    \/ one.y = two.y /\ one.m = two.m /\ one.d = two.d /\ one.h = two.h
       /\ one.i = two.i /\ one.s > two.s
    \/ one.y = two.y /\ one.m = two.m /\ one.d = two.d /\ one.h = two.h
       /\ one.i = two.i /\ one.s = two.s /\ one.us > two.us

\* The fallback comparison of sort_old_to_new, on sse and us.
SseLater(one, two) ==
    one.sse > two.sse \/ (one.sse = two.sse /\ one.us > two.us)

swap_times(one, two) == [one |-> two, two |-> one, invert |-> 1]

sort_old_to_new(one, two) ==
    IF SameTzid(one, two)
    THEN (IF FieldsLater(one, two) THEN swap_times(one, two)
          ELSE [one |-> one, two |-> two, invert |-> 0])
    ELSE (IF SseLater(one, two) THEN swap_times(one, two)
          ELSE [one |-> one, two |-> two, invert |-> 0])

\* timelib_diff_days without the "days > 0" guard: a later instant with the
\* earlier time of day always costs a day.
timelib_diff_days_unguarded(one, two) ==
    IF timelib_same_timezone(one, two)
    THEN LET first    == timelib_time_compare(one, two) < 0
             earliest == IF first THEN one ELSE two
             latest   == IF first THEN two ELSE one
             days == llabs(timelib_epoch_days_from_time(one)
                           - timelib_epoch_days_from_time(two))
         IN  IF DecimalLess(
                    timelib_hmsf_to_decimal_hour(latest.h, latest.i,
                                                 latest.s, latest.us),
                    timelib_hmsf_to_decimal_hour(earliest.h, earliest.i,
                                                 earliest.s, earliest.us))
             THEN days - 1 ELSE days
    ELSE CDiv(llabs(one.sse - two.sse), 86400)

timelib_diff_days(one, two) ==
    IF timelib_same_timezone(one, two)
    THEN LET first    == timelib_time_compare(one, two) < 0
             earliest == IF first THEN one ELSE two
             latest   == IF first THEN two ELSE one
             earliest_time == timelib_hmsf_to_decimal_hour(earliest.h, earliest.i,
                                                           earliest.s, earliest.us)
             latest_time   == timelib_hmsf_to_decimal_hour(latest.h, latest.i,
                                                           latest.s, latest.us)
             days == llabs(timelib_epoch_days_from_time(one)
                           - timelib_epoch_days_from_time(two))
         IN  IF DecimalLess(latest_time, earliest_time) /\ days > 0
             THEN days - 1 ELSE days
    ELSE CDiv(llabs(one.sse - two.sse), 86400)

\* timelib_diff_with_tzid up to the day count: the sort, the offset change
\* between the two instants, the raw subtraction and the days.
SubtractSorted(srt) ==
    [one |-> srt.one, two |-> srt.two,
     dst_corr |-> srt.two.z - srt.one.z,
     rt |-> [timelib_rel_time_ctor EXCEPT
               !.invert = srt.invert,
               !.y = srt.two.y - srt.one.y, !.m = srt.two.m - srt.one.m,
               !.d = srt.two.d - srt.one.d, !.h = srt.two.h - srt.one.h,
               !.i = srt.two.i - srt.one.i, !.s = srt.two.s - srt.one.s,
               !.us = srt.two.us - srt.one.us,
               !.days = timelib_diff_days(srt.one, srt.two)]]

TzidSubtract(a, b) ==
    CHOOSE r \in {SubtractSorted(srt) : srt \in {sort_old_to_new(a, b)}} : TRUE

\* The transition period handled without flipping the invert flag.
TzidFlipKeepsInvert(st) ==
    IF st.two.sse < st.one.sse
    THEN LET flipped == llabs(st.rt.i * 60 + st.rt.s - st.dst_corr)
             h == CDiv(flipped, SECS_PER_HOUR)
         IN  [st EXCEPT !.rt.h = h,
                        !.rt.i = CDiv(flipped - h * SECS_PER_HOUR, 60),
                        !.rt.s = CMod(flipped, 60)]
    ELSE st

\* The transition period: the fields are in order and the epoch seconds are
\* not.  The hour, minute and second are recomputed and invert is flipped.
TzidFlip(st) ==
    IF st.two.sse < st.one.sse
    THEN LET flipped == llabs(st.rt.i * 60 + st.rt.s - st.dst_corr)
             h == CDiv(flipped, SECS_PER_HOUR)
         IN  [st EXCEPT !.rt.h = h,
                        !.rt.i = CDiv(flipped - h * SECS_PER_HOUR, 60),
                        !.rt.s = CMod(flipped, 60),
                        !.rt.invert = 1 - st.rt.invert]
    ELSE st

TzidNormalize(st) ==
    [st EXCEPT !.rt = timelib_do_rel_normalize(
                          IF st.rt.invert # 0 THEN st.one ELSE st.two, st.rt)]

FallBackApplies(st) ==
    /\ st.two.tz_name # ""
    /\ st.two.sse - st.one.sse + st.dst_corr < SECS_PER_DAY

\* The spring-forward test with the straddle condition not negated.
SpringForwardStraddling(st) ==
    /\ st.two.tz_name # ""
    /\ LET info == timelib_get_time_zone_offset_info(st.two.sse, st.two.tz_name)
           tt   == info.transition_time
       IN  /\ info.success
           /\ st.one.sse + SECS_PER_DAY > tt
           /\ st.one.sse + SECS_PER_DAY <= tt + st.dst_corr
           /\ st.two.sse >= tt
           /\ CMod(st.two.sse - st.one.sse + st.dst_corr, SECS_PER_DAY)
                > st.two.sse - tt

SpringForwardApplies(st) ==
    /\ st.two.tz_name # ""
    /\ LET info == timelib_get_time_zone_offset_info(st.two.sse, st.two.tz_name)
           tt   == info.transition_time
       IN  /\ info.success
           /\ ~ (/\ st.one.sse + SECS_PER_DAY > tt
                 /\ st.one.sse + SECS_PER_DAY <= tt + st.dst_corr)
           /\ st.two.sse >= tt
           /\ CMod(st.two.sse - st.one.sse + st.dst_corr, SECS_PER_DAY)
                > st.two.sse - tt

\* The multi-day test with the result of the lookup not checked: a lookup
\* that found nothing passes for a match.
MultiDayUnchecked(st) ==
    LET info == timelib_get_time_zone_offset_info(st.two.sse - st.two.z,
                                                  st.two.tz_name)
        corr == st.one.z - info.offset
    IN  \/ ~ info.success
        \/ /\ st.two.sse >= info.transition_time - corr
           /\ st.two.sse < info.transition_time

MultiDayApplies(st) ==
    LET info == timelib_get_time_zone_offset_info(st.two.sse - st.two.z,
                                                  st.two.tz_name)
        corr == st.one.z - info.offset
    IN  /\ info.success
        /\ st.two.sse >= info.transition_time - corr
        /\ st.two.sse < info.transition_time

\* The three transition cases that follow the normalisation.
TzidCorrect(st) ==
    LET dst_h_corr == CDiv(st.dst_corr, 3600)
        dst_m_corr == CDiv(CMod(st.dst_corr, 3600), 60)
        shifted    == [st.rt EXCEPT !.h = st.rt.h - dst_h_corr,
                                    !.i = st.rt.i - dst_m_corr]
    IN  IF st.one.dst = 1 /\ st.two.dst = 0
        THEN (IF FallBackApplies(st) THEN shifted ELSE st.rt)
        ELSE IF st.one.dst = 0 /\ st.two.dst = 1
        THEN (IF SpringForwardApplies(st) THEN shifted ELSE st.rt)
        ELSE IF st.two.sse - st.one.sse >= SECS_PER_DAY
        THEN (IF MultiDayApplies(st)
              THEN [st.rt EXCEPT !.d = st.rt.d - 1, !.h = 24]
              ELSE st.rt)
        ELSE st.rt

\* The interval as it stands after the normalisation, before the
\* transition cases are looked at.
TzidNormalized(a, b) ==
    CHOOSE r \in {TzidNormalize(flipped) :
                    flipped \in {TzidFlip(st) : st \in {TzidSubtract(a, b)}}} : TRUE

timelib_diff_with_tzid(a, b) ==
    CHOOSE r \in {TzidCorrect(st) : st \in {TzidNormalized(a, b)}} : TRUE

\* The cross-zone subtraction with the DST hour of the second instant left
\* out of the hour field.
OtherSubtractOneSided(srt) ==
    LET one == srt.one
        two == srt.two
        h0  == two.h - one.h
        h1  == IF one.zone_type # TIMELIB_ZONETYPE_ID THEN h0 + one.dst ELSE h0
    IN  [one |-> one, two |-> two,
         rt |-> [timelib_rel_time_ctor EXCEPT
                   !.invert = srt.invert,
                   !.y = two.y - one.y, !.m = two.m - one.m, !.d = two.d - one.d,
                   !.h = h1, !.i = two.i - one.i,
                   !.s = two.s - one.s - two.z + one.z,
                   !.us = two.us - one.us,
                   !.days = timelib_diff_days(one, two)]]

\* The path of timelib_diff for instants that do not share a named zone.
OtherSubtractSorted(srt) ==
    LET one == srt.one
        two == srt.two
        h0  == two.h - one.h
        h1  == IF one.zone_type # TIMELIB_ZONETYPE_ID THEN h0 + one.dst ELSE h0
        h2  == IF two.zone_type # TIMELIB_ZONETYPE_ID THEN h1 - two.dst ELSE h1
    IN  [one |-> one, two |-> two,
         rt |-> [timelib_rel_time_ctor EXCEPT
                   !.invert = srt.invert,
                   !.y = two.y - one.y, !.m = two.m - one.m, !.d = two.d - one.d,
                   !.h = h2, !.i = two.i - one.i,
                   !.s = two.s - one.s - two.z + one.z,
                   !.us = two.us - one.us,
                   !.days = timelib_diff_days(one, two)]]

OtherNormalize(st) ==
    timelib_do_rel_normalize(IF st.rt.invert # 0 THEN st.one ELSE st.two, st.rt)

DiffOtherZones(a, b) ==
    CHOOSE r \in {OtherNormalize(st) :
                    st \in {OtherSubtractSorted(srt) :
                              srt \in {sort_old_to_new(a, b)}}} : TRUE

timelib_diff(one, two) ==
    IF SameTzid(one, two) THEN timelib_diff_with_tzid(one, two)
    ELSE DiffOtherZones(one, two)

(***************************************************************************)
(* epoch_from_calendar: sse (and, through the zone, z and dst) from the    *)
(* calendar fields plus the pending relative delta.  The year, month and   *)
(* day of the delta move the calendar fields; its hour, minute, second and *)
(* microsecond are elapsed time added to the epoch value.                  *)
(***************************************************************************)
\* The epoch second of a wall time in a named zone.  A wall time that a
\* fall-back repeats is told apart by the instant's DST flag; one that a
\* spring-forward skips is read with the offset in force before the jump.
ResolveLocal(local, name, dst) ==
    LET offsets == {ZoneInitial(name).offset}
                     \cup {ZoneTable(name)[k].offset : k \in 1..Len(ZoneTable(name))}
        cands   == {local - o : o \in {x \in offsets :
                        timelib_get_time_zone_info(local - x, name).offset = x}}
        same    == {c \in cands : timelib_get_time_zone_info(c, name).is_dst = dst}
        low(S)  == CHOOSE c \in S : \A e \in S : c <= e
        before  == CHOOSE o \in offsets : \A x \in offsets : o <= x
    IN  IF cands = {} THEN local - before
        ELSE IF same # {} THEN low(same)
        ELSE low(cands)

DayOfWeek(y, m, d) == (EpochDays(y, m, d) + 4) % 7

TIMELIB_SPECIAL_FIRST_DAY_OF_MONTH == 1

TIMELIB_SPECIAL_LAST_DAY_OF_MONTH == 2

\* The special modes of a relative delta: the weekday it asks for, the
\* first or last day of the month it lands in.
ApplySpecial(t, rel) ==
    LET wd == IF rel.have_weekday_relative # 0
              THEN [t EXCEPT !.d = t.d + ((rel.weekday - DayOfWeek(t.y, t.m, t.d)) % 7)]
              ELSE t
    IN  IF rel.have_special_relative = 0 THEN wd
        ELSE IF rel.special_type = TIMELIB_SPECIAL_FIRST_DAY_OF_MONTH
        THEN [wd EXCEPT !.d = 1]
        ELSE [wd EXCEPT !.d = timelib_days_in_month(wd.y, wd.m)]

\* The calendar fields moved by the delta's year, month, day and
\* microsecond, and by its special modes.
do_adjust_relative(t, rel) ==
    CHOOSE r \in
        {timelib_do_normalize(special) :
           special \in {ApplySpecial(moved, rel) :
              moved \in {timelib_do_normalize(raw) :
                 raw \in {[t EXCEPT !.y = t.y + rel.y, !.m = t.m + rel.m,
                                    !.d = t.d + rel.d, !.us = t.us + rel.us]}}}}
        : TRUE

\* The epoch second of the calendar fields f in f's zone.
do_adjust_timezone(f) ==
    IF f.zone_type = TIMELIB_ZONETYPE_ID
    THEN CHOOSE r \in
           {ResolveLocal(local, f.tz_name, f.dst) :
              local \in {timelib_epoch_days_from_time(f) * SECS_PER_DAY
                           + timelib_hms_to_seconds(f.h, f.i, f.s)}} : TRUE
    ELSE timelib_epoch_days_from_time(f) * SECS_PER_DAY
           + timelib_hms_to_seconds(f.h, f.i, f.s) - f.z - f.dst * 3600

StampEpoch(f, at) ==
    IF f.zone_type = TIMELIB_ZONETYPE_ID
    THEN LET info == timelib_get_time_zone_info(at, f.tz_name)
         IN  [f EXCEPT !.sse = at, !.z = info.offset, !.dst = info.is_dst]
    ELSE [f EXCEPT !.sse = at]

UpdateTsFrom(f, rel) ==
    CHOOSE r \in
        {StampEpoch(f, at) :
           at \in {do_adjust_timezone(f)
                     + timelib_hms_to_seconds(rel.h, rel.i, rel.s)}} : TRUE

timelib_update_ts(t, rel) ==
    CHOOSE r \in {UpdateTsFrom(f, rel) : f \in {do_adjust_relative(t, rel)}} : TRUE

(***************************************************************************)
(* interval.c: interval application                                        *)
(***************************************************************************)
\* memset(&t->relative, 0, ...)
ZeroRelative == timelib_rel_time_ctor

\* The plain fields of the interval times sign, everything else cleared.
SignedFields(interval, sign) ==
    [ZeroRelative EXCEPT
        !.y = interval.y * sign, !.m = interval.m * sign, !.d = interval.d * sign,
        !.h = interval.h * sign, !.i = interval.i * sign, !.s = interval.s * sign,
        !.us = interval.us * sign]

Bias(interval) == IF interval.invert # 0 THEN -1 ELSE 1

\* The relative delta timelib_add stamps on the clone.
AddRelative(interval) ==
    IF interval.have_weekday_relative # 0 \/ interval.have_special_relative # 0
    THEN interval
    ELSE SignedFields(interval, Bias(interval))

\* The delta of timelib_sub with the sign of timelib_add.
SubRelativeNotNegated(interval) == SignedFields(interval, Bias(interval))

\* The relative delta timelib_sub stamps on the clone.
SubRelative(interval) == SignedFields(interval, 0 - Bias(interval))

timelib_add(old_time, interval) ==
    CHOOSE r \in
        {timelib_update_from_sse(t1) :
           t1 \in {timelib_update_ts(old_time, rel) :
                     rel \in {AddRelative(interval)}}} : TRUE

timelib_sub(old_time, interval) ==
    CHOOSE r \in
        {timelib_update_from_sse(t1) :
           t1 \in {timelib_update_ts(old_time, rel) :
                     rel \in {SubRelative(interval)}}} : TRUE

\* do_range_limit with the underflow carried by truncating division alone
\* (the "- 1 ... + 1" of the code left out).
do_range_limit_truncating(start, end, adj, a, b) ==
    LET b1 == IF a < start THEN b - CDiv(start - a, adj) ELSE b
        a1 == IF a < start THEN a + adj * CDiv(start - a, adj) ELSE a
        b2 == IF a1 >= end THEN b1 + CDiv(a1, adj) ELSE b1
        a2 == IF a1 >= end THEN a1 - adj * CDiv(a1, adj) ELSE a1
    IN  [a |-> a2, b |-> b2]

do_range_limit(start, end, adj, a, b) ==
    LET b1 == IF a < start THEN b - (CDiv(start - a - 1, adj) + 1) ELSE b
        a1 == IF a < start THEN a + adj * (CDiv(start - a - 1, adj) + 1) ELSE a
        b2 == IF a1 >= end THEN b1 + CDiv(a1, adj) ELSE b1
        a2 == IF a1 >= end THEN a1 - adj * CDiv(a1, adj) ELSE a1
    IN  [a |-> a2, b |-> b2]

\* The year, month and day of the interval, the only fields wall mode
\* stamps on the clone.
WallRelative(interval, sign) ==
    [ZeroRelative EXCEPT
        !.y = interval.y * sign, !.m = interval.m * sign, !.d = interval.d * sign]

\* t with its epoch second moved by secs, the calendar fields re-derived.
ShiftSse(t0, secs) ==
    CHOOSE r \in {timelib_update_from_sse(moved) :
                    moved \in {[t0 EXCEPT !.sse = t0.sse + secs]}} : TRUE

\* The branch of wall mode for an interval with microseconds: the
\* microseconds are brought into range, the seconds applied to sse, the
\* microseconds to the us field, and sse recomputed.
WallMicrosFrom(t1, interval, sign, lim) ==
    CHOOSE r \in
        {timelib_update_ts(t3, ZeroRelative) :
           t3 \in {timelib_do_normalize([t2 EXCEPT !.us = t2.us + sign * lim.a]) :
              t2 \in {ShiftSse(t1, sign * timelib_hms_to_seconds(
                                              interval.h, interval.i, lim.b))}}}
        : TRUE

WallMicros(t1, interval, sign) ==
    CHOOSE r \in
        {WallMicrosFrom(t1, interval, sign, lim) :
           lim \in {do_range_limit(0, 1000000, 1000000,
                                   interval.us, interval.s)}} : TRUE

\* Wall mode with the hour, minute and second moved as calendar fields and
\* the epoch second recomputed from them.
WallSecondsByFields(t1, interval, sign) ==
    CHOOSE r \in
        {timelib_update_ts(moved, ZeroRelative) :
           moved \in {timelib_do_normalize(
                         [t1 EXCEPT !.h = t1.h + sign * interval.h,
                                    !.i = t1.i + sign * interval.i,
                                    !.s = t1.s + sign * interval.s,
                                    !.us = t1.us + sign * interval.us])}} : TRUE

WallSeconds(t1, interval, sign) ==
    IF interval.us = 0
    THEN ShiftSse(t1, sign * timelib_hms_to_seconds(interval.h, interval.i,
                                                    interval.s))
    ELSE WallMicros(t1, interval, sign)

\* The plain branch of timelib_add_wall (dir = 1) and timelib_sub_wall
\* (dir = -1).
WallPlain(old_time, interval, dir) ==
    CHOOSE r \in
        {timelib_do_normalize(t2) :
           t2 \in {WallSeconds(t1, interval, dir * Bias(interval)) :
              t1 \in {IF interval.y # 0 \/ interval.m # 0 \/ interval.d # 0
                      THEN timelib_update_ts(old_time,
                               WallRelative(interval, dir * Bias(interval)))
                      ELSE old_time}}} : TRUE

WallSpecial(old_time, interval) ==
    CHOOSE r \in {timelib_update_from_sse(t1) :
                    t1 \in {timelib_update_ts(old_time, interval)}} : TRUE

WallZone(t) ==
    IF t.zone_type = TIMELIB_ZONETYPE_ID THEN timelib_set_timezone(t) ELSE t

timelib_add_wall(old_time, interval) ==
    CHOOSE r \in
        {WallZone(t1) :
           t1 \in {IF interval.have_weekday_relative # 0
                      \/ interval.have_special_relative # 0
                   THEN WallSpecial(old_time, interval)
                   ELSE WallPlain(old_time, interval, 1)}} : TRUE

timelib_sub_wall(old_time, interval) ==
    CHOOSE r \in
        {WallZone(t1) :
           t1 \in {IF interval.have_weekday_relative # 0
                      \/ interval.have_special_relative # 0
                   THEN WallSpecial(old_time, interval)
                   ELSE WallPlain(old_time, interval, -1)}} : TRUE

(***************************************************************************)
(* The inputs.  Instants are built from a zone, an epoch second and a      *)
(* microsecond, as the library builds them, so that every input is a       *)
(* consistent instant.                                                      *)
(***************************************************************************)
\* Whole days before and after a DST transition at which instants are taken.
MaxDays == 1

\* Multiples of an interval's amounts that are applied.
MaxScale == 1

\* Whole seconds of excess or deficit in a microsecond value handed to
\* do_range_limit.
MaxCarry == 2

ZoneNY == [z |-> -18000, dst |-> 0, zone_type |-> TIMELIB_ZONETYPE_ID, tz_name |-> NY]

ZoneAMS == [z |-> 3600, dst |-> 0, zone_type |-> TIMELIB_ZONETYPE_ID, tz_name |-> AMS]

ZoneUTC == [z |-> 0, dst |-> 0, zone_type |-> TIMELIB_ZONETYPE_OFFSET, tz_name |-> ""]

ZonePlus1 == [z |-> 3600, dst |-> 0, zone_type |-> TIMELIB_ZONETYPE_OFFSET, tz_name |-> ""]

ZoneEDT == [z |-> -18000, dst |-> 1, zone_type |-> TIMELIB_ZONETYPE_ABBR, tz_name |-> ""]

DayShifts == {k * SECS_PER_DAY : k \in (0 - MaxDays)..MaxDays}

\* 2023-01-31, 2023-02-28 and 2023-04-01, 12:00 UTC.
MonthEnds == {1675166400, 1677585600, 1680350400}

\* 2023-02-28 23:30 UTC, which is 2023-03-01 00:30 at +01:00.
LateFeb == 1677627000

NYTimes ==
    {MkTime(ZoneNY, NYSpring + o + k, 0) : o \in {-1800, 1800}, k \in DayShifts}
    \cup {MkTime(ZoneNY, NYFall + o + k, 0) :
              o \in {-3000, -1800, 600, 1800}, k \in DayShifts}
    \cup {MkTime(ZoneNY, NYFall + o, 500000) : o \in {-1800, 1800, -1}}
    \cup {MkTime(ZoneNY, e, 0) : e \in MonthEnds}

AMSTimes ==
    {MkTime(ZoneAMS, e + o, 0) : e \in {AMSSpring, AMSFall}, o \in {-1800, 1800}}

OtherTimes ==
    {MkTime(ZoneUTC, e, 0) : e \in {NYSpring - 1800, NYFall - 1800, LateFeb} \cup MonthEnds}
    \cup {MkTime(ZoneUTC, NYFall - 1800, 500000)}
    \cup {MkTime(ZonePlus1, e, 0) : e \in {LateFeb, NYFall - 1800}}
    \cup {MkTime(ZoneEDT, e, 0) : e \in {NYFall - 1800, NYSpring + 1800}}

Times == NYTimes \cup AMSTimes \cup OtherTimes

Plain(y, m, d, h, i, s, us, invert) ==
    [timelib_rel_time_ctor EXCEPT !.y = y, !.m = m, !.d = d, !.h = h, !.i = i,
                                  !.s = s, !.us = us, !.invert = invert,
                                  !.days = TIMELIB_UNSET]

PlainIntervals ==
    {Plain(0, k, 0, 0, 0, 0, 0, v) : k \in 1..MaxScale, v \in {0, 1}}
    \cup {Plain(0, 0, k, 0, 0, 0, 0, v) : k \in 1..MaxScale, v \in {0, 1}}
    \cup {Plain(0, 0, 0, 24 * k, 0, 0, 0, v) : k \in 1..MaxScale, v \in {0, 1}}
    \cup {Plain(0, 0, 0, k, 30, 0, 0, v) : k \in 1..MaxScale, v \in {0, 1}}
    \cup {Plain(0, 0, 0, 0, 0, k, 500000, v) : k \in 0..MaxScale, v \in {0, 1}}
    \cup {Plain(0, 0, k, 0, 0, 0, -1500000, 0) : k \in 0..MaxScale}

\* "next Tuesday", "first day of next month", "last day of this month + 1 day"
SpecialIntervals ==
    { [Plain(0, 0, 0, 0, 0, 0, 0, 0) EXCEPT !.have_weekday_relative = 1, !.weekday = 2],
      [Plain(0, 1, 0, 0, 0, 0, 0, 0) EXCEPT
           !.have_special_relative = 1,
           !.special_type = TIMELIB_SPECIAL_FIRST_DAY_OF_MONTH],
      [Plain(0, 0, 1, 2, 0, 0, 0, 1) EXCEPT
           !.have_special_relative = 1,
           !.special_type = TIMELIB_SPECIAL_LAST_DAY_OF_MONTH] }

Intervals == PlainIntervals \cup SpecialIntervals

\* Microsecond values around the multiples of a second, and whole seconds.
UsInputs ==
    {k * USECS_PER_SEC + o : k \in (0 - MaxCarry)..MaxCarry,
                             o \in {-500000, -1, 0, 1, 500000}}

SecInputs == (0 - MaxCarry)..MaxCarry

NoTime == MkTime(ZoneUTC, 0, 0)

NoInterval == timelib_rel_time_ctor

Ops == {"diff", "diff_days", "add", "sub", "add_wall", "sub_wall", "range_limit"}

(***************************************************************************)
(* The state: one call of the library.  op is the function called, one,    *)
(* two, interval, a and b its arguments; the other variables hold what the *)
(* call returned.                                                          *)
(***************************************************************************)
VARIABLES pc, op, one, two, interval, a, b, rt, rt_back, days, t, t_back, relative

vars == << pc, op, one, two, interval, a, b, rt, rt_back, days, t, t_back, relative >>

Init ==
    /\ pc = "start"
    /\ op \in Ops
    /\ one \in (IF op = "range_limit" THEN {NoTime} ELSE Times)
    /\ two \in (IF op \in {"diff", "diff_days"} THEN Times ELSE {NoTime})
    /\ interval \in (IF op \in {"add", "sub", "add_wall", "sub_wall"}
                     THEN Intervals ELSE {NoInterval})
    /\ a \in (IF op = "range_limit" THEN UsInputs ELSE {0})
    /\ b \in (IF op = "range_limit" THEN SecInputs ELSE {0})
    /\ rt = NoInterval
    /\ rt_back = NoInterval
    /\ days = 0
    /\ t = NoTime
    /\ t_back = NoTime
    /\ relative = NoInterval

\* rt = timelib_diff(one, two)
Diff ==
    /\ pc = "start" /\ op = "diff"
    /\ rt' = timelib_diff(one, two)
    /\ pc' = "diffed"
    /\ UNCHANGED << op, one, two, interval, a, b, rt_back, days, t, t_back, relative >>

\* The same two instants, the arguments exchanged.
DiffBack ==
    /\ pc = "diffed"
    /\ rt_back' = timelib_diff(two, one)
    /\ pc' = "rediffed"
    /\ UNCHANGED << op, one, two, interval, a, b, rt, days, t, t_back, relative >>

DiffDays ==
    /\ pc = "start" /\ op = "diff_days"
    /\ days' = timelib_diff_days(one, two)
    /\ pc' = "counted"
    /\ UNCHANGED << op, one, two, interval, a, b, rt, rt_back, t, t_back, relative >>

Add ==
    /\ pc = "start" /\ op = "add"
    /\ relative' = AddRelative(interval)
    /\ t' = timelib_add(one, interval)
    /\ pc' = "added"
    /\ UNCHANGED << op, one, two, interval, a, b, rt, rt_back, days, t_back >>

\* The interval just added is subtracted from the result.
SubBack ==
    /\ pc = "added"
    /\ relative' = SubRelative(interval)
    /\ t_back' = timelib_sub(t, interval)
    /\ pc' = "returned"
    /\ UNCHANGED << op, one, two, interval, a, b, rt, rt_back, days, t >>

Sub ==
    /\ pc = "start" /\ op = "sub"
    /\ relative' = SubRelative(interval)
    /\ t' = timelib_sub(one, interval)
    /\ pc' = "subbed"
    /\ UNCHANGED << op, one, two, interval, a, b, rt, rt_back, days, t_back >>

AddWall ==
    /\ pc = "start" /\ op = "add_wall"
    /\ t' = timelib_add_wall(one, interval)
    /\ pc' = "walled"
    /\ UNCHANGED << op, one, two, interval, a, b, rt, rt_back, days, t_back, relative >>

SubWall ==
    /\ pc = "start" /\ op = "sub_wall"
    /\ t' = timelib_sub_wall(one, interval)
    /\ pc' = "walled"
    /\ UNCHANGED << op, one, two, interval, a, b, rt, rt_back, days, t_back, relative >>

\* do_range_limit(0, 1000000, 1000000, &a, &b): rt.us and rt.s hold the result.
RangeLimit ==
    /\ pc = "start" /\ op = "range_limit"
    /\ LET r == do_range_limit(0, 1000000, 1000000, a, b)
       IN  rt' = [NoInterval EXCEPT !.us = r.a, !.s = r.b]
    /\ pc' = "limited"
    /\ UNCHANGED << op, one, two, interval, a, b, rt_back, days, t, t_back, relative >>

Next ==
    \/ Diff \/ DiffBack \/ DiffDays
    \/ Add \/ SubBack \/ Sub
    \/ AddWall \/ SubWall
    \/ RangeLimit

Spec == Init /\ [][Next]_vars

(***************************************************************************)
(* Properties.                                                              *)
(***************************************************************************)
\* The magnitude fields of an interval: everything but the invert flag.
Magnitudes(r) == << r.y, r.m, r.d, r.h, r.i, r.s, r.us, r.days >>

\* The time of day of an instant is strictly earlier than another's.
TimeOfDayLess(p, q) ==
    \/ timelib_hms_to_seconds(p.h, p.i, p.s) < timelib_hms_to_seconds(q.h, q.i, q.s)
    \/ /\ timelib_hms_to_seconds(p.h, p.i, p.s) = timelib_hms_to_seconds(q.h, q.i, q.s)
       /\ p.us < q.us

\* The chronologically later and earlier of two instants, as
\* timelib_time_compare orders them (the second when they are equal).
Later(p, q) == IF SseLater(p, q) THEN p ELSE q

Earlier(p, q) == IF SseLater(p, q) THEN q ELSE p

EpochDayDistance(p, q) ==
    llabs(timelib_epoch_days_from_time(p) - timelib_epoch_days_from_time(q))

\* C4 as stated: for every pair of instants of the same zone, pairs on the
\* same epoch day included, timelib_diff_days returns the distance of the
\* epoch days, less one exactly when the later instant's time of day is
\* strictly earlier than the earlier instant's.
C4_DaysReducedByTimeOfDayAlone ==
    (pc = "counted" /\ timelib_same_timezone(one, two))
        => days = EpochDayDistance(one, two)
                    - (IF TimeOfDayLess(Later(one, two), Earlier(one, two))
                       THEN 1 ELSE 0)

\* C4, amended: the day count is reduced by one exactly when the later
\* instant's time of day is strictly earlier than the earlier instant's AND
\* the epoch days differ; two instants on the same epoch day count 0 days.
C4_DaysReducedOnlyAcrossDays ==
    (pc = "counted" /\ timelib_same_timezone(one, two))
        => days = EpochDayDistance(one, two)
                    - (IF /\ TimeOfDayLess(Later(one, two), Earlier(one, two))
                          /\ EpochDayDistance(one, two) > 0
                       THEN 1 ELSE 0)

\* Two instants of one zone on the same epoch day, the later one with the
\* earlier time of day (the repeated hour of a fall-back), counted 0 days.
C4_SameDayWitness ==
    /\ pc = "counted" /\ timelib_same_timezone(one, two)
    /\ EpochDayDistance(one, two) = 0
    /\ TimeOfDayLess(Later(one, two), Earlier(one, two))
    /\ days = 0

\* C5: do_range_limit(0, 1000000, 1000000, &us, &s) leaves, for every signed
\* pair (us, s), 0 <= us' < 1000000 and s' * 1000000 + us' = s * 1000000 + us.
C5_MicrosecondRange ==
    pc = "limited"
        => /\ 0 <= rt.us
           /\ rt.us < 1000000
           /\ rt.s * 1000000 + rt.us = b * 1000000 + a

\* us = -500000 has become 500000, the second decremented by one.
C5_NegativeHalfWitness ==
    /\ pc = "limited"
    /\ a = -500000
    /\ rt.us = 500000
    /\ rt.s = b - 1

\* The scenario of C6: 01:30:00 before and 03:30:00 after the spring-forward
\* of one named zone, an hour apart.
SpringForwardPair(p, q) ==
    /\ SameTzid(p, q)
    /\ p.dst = 0 /\ q.dst = 1
    /\ p.z = -18000 /\ q.z = -14400
    /\ p.y = q.y /\ p.m = q.m /\ p.d = q.d
    /\ p.h = 1 /\ p.i = 30 /\ p.s = 0
    /\ q.h = 3 /\ q.i = 30 /\ q.s = 0
    /\ p.us = q.us
    /\ q.sse - p.sse = 3600

\* C6: the difference from 01:30:00 to 03:30:00 across the spring-forward is
\* h = 1, every other field 0, invert = 0 and days = 0.
C6_SpringForwardOneHour ==
    (pc = "diffed" /\ SpringForwardPair(one, two))
        => /\ Magnitudes(rt) = << 0, 0, 0, 1, 0, 0, 0, 0 >>
           /\ rt.invert = 0

C6_SpringForwardWitness ==
    /\ pc = "diffed"
    /\ SpringForwardPair(one, two)
    /\ rt.h = 1

\* C7: timelib_diff returns invert = 1 exactly when its first argument is the
\* chronologically later instant.
C7_InvertIffFirstLater ==
    pc = "diffed" => (rt.invert = 1 <=> SseLater(one, two))

\* The same-zone path with the calendar fields in one order and the epoch
\* seconds in the other: the first argument is later and reads earlier.
C7_TransitionWitness ==
    /\ pc = "diffed"
    /\ SameTzid(one, two)
    /\ one.sse > two.sse
    /\ FieldsLater(two, one)
    /\ rt.invert = 1

\* C8: the difference of two identical instants is the zero interval,
\* not inverted.
C8_EqualInstantsZero ==
    (pc = "diffed" /\ one = two)
        => /\ Magnitudes(rt) = << 0, 0, 0, 0, 0, 0, 0, 0 >>
           /\ rt.invert = 0

\* Identical instants outside the same-named-zone path, the DST flag set.
C8_CrossZoneWitness ==
    /\ pc = "diffed"
    /\ one = two
    /\ ~ SameTzid(one, two)
    /\ one.dst = 1
    /\ Magnitudes(rt) = << 0, 0, 0, 0, 0, 0, 0, 0 >>

\* C1 as stated: timelib_diff(a, b) and timelib_diff(b, a) have the same
\* y, m, d, h, i, s, us and days, and differ in the invert flag alone.
C1_Antisymmetry ==
    pc = "rediffed" => Magnitudes(rt) = Magnitudes(rt_back)

IsSpecial(iv) == iv.have_weekday_relative # 0 \/ iv.have_special_relative # 0

\* C2 as stated: for every plain interval iv, timelib_sub(timelib_add(t, iv), iv)
\* has the epoch seconds of t.
C2_RoundTripAnyPlainInterval ==
    (pc = "returned" /\ ~ IsSpecial(interval)) => t_back.sse = one.sse

\* C2, amended: for a plain interval of hours, minutes and seconds only
\* (y = m = d = us = 0), timelib_sub(timelib_add(t, iv), iv) has the epoch
\* seconds of t.
C2_RoundTripElapsedInterval ==
    (/\ pc = "returned" /\ ~ IsSpecial(interval)
     /\ interval.y = 0 /\ interval.m = 0 /\ interval.d = 0 /\ interval.us = 0)
        => t_back.sse = one.sse

\* 24 hours added across a DST transition and taken away again.
C2_AcrossTransitionWitness ==
    /\ pc = "returned" /\ ~ IsSpecial(interval)
    /\ interval.y = 0 /\ interval.m = 0 /\ interval.d = 0 /\ interval.us = 0
    /\ interval.h = 24
    /\ t.z # one.z
    /\ t.sse # one.sse
    /\ t_back.sse = one.sse

\* The instant is on a calendar day of its zone that contains a transition.
OnTransitionDay(p) ==
    /\ p.zone_type = TIMELIB_ZONETYPE_ID
    /\ \E k \in 1..Len(ZoneTable(p.tz_name)) :
          timelib_epoch_days_from_time(p)
              = (ZoneTable(p.tz_name)[k].at
                   + timelib_get_time_zone_info(ZoneTable(p.tz_name)[k].at - 1,
                                                p.tz_name).offset)
                \div SECS_PER_DAY

\* The interval of C3: 24 hours, everything else 0, not inverted.
Is24Hours(iv) == iv = Plain(0, 0, 0, 24, 0, 0, 0, 0)

TimeOfDay(p) == timelib_hms_to_seconds(p.h, p.i, p.s)

C9_SpecialCopiedVerbatim ==
    /\ pc = "added"
         => relative = IF IsSpecial(interval) THEN interval
                       ELSE SignedFields(interval, Bias(interval))
    /\ pc \in {"subbed", "returned"}
         => relative = IF IsSpecial(interval) THEN interval
                       ELSE SignedFields(interval, 0 - Bias(interval))

\* The sorted pair of the same-named-zone path, the transition step done.
Sorted(p, q) ==
    CHOOSE r \in {TzidFlip(st) : st \in {TzidSubtract(p, q)}} : TRUE

\* The lookup of the spring-forward branch reports "not found".
SpringLookupFails(st) ==
    /\ st.one.dst = 0 /\ st.two.dst = 1
    /\ ~ timelib_get_time_zone_offset_info(st.two.sse, st.two.tz_name).success

\* The lookup of the multi-day branch reports "not found".
MultiDayLookupFails(st) ==
    /\ st.one.dst = st.two.dst
    /\ st.two.sse - st.one.sse >= SECS_PER_DAY
    /\ ~ timelib_get_time_zone_offset_info(st.two.sse - st.two.z,
                                           st.two.tz_name).success

=============================================================================
